---------------------------- MODULE Spec2Model ----------------------------
(***************************************************************************)
(* A model of nlp_pipeline.py: sentence segmentation, tokenization, POS    *)
(* classification (heuristic, or manual with a cache file), lemmatization  *)
(* and stop-word removal.                                                  *)
(*                                                                         *)
(* A Python str is a sequence of one-character strings, so that lower(),   *)
(* endswith(), slicing and the regular expressions are computed and not    *)
(* assumed.  A POS tag is the str the code uses, hence also a sequence.    *)
(***************************************************************************)
EXTENDS Integers, Sequences, FiniteSets, TLC

(***************************************************************************)
(* Bounds of the model.                                                    *)
(***************************************************************************)
\* longest input text handed to run_pipeline
MaxTextLen == 3
\* number of consecutive program runs sharing one cache file
MaxRuns == 2
\* longest generated stem of the tokens handed to the pure functions
MaxStemLen == 3

(***************************************************************************)
(* Characters.                                                             *)
(***************************************************************************)
DEFAULT_STOPWORDS ==
  {
    <<"a">>, <<"a","n">>, <<"t","h","e">>, <<"a","n","d">>, <<"o","r">>, <<"b","u","t">>,
    <<"i","f">>, <<"t","h","e","n">>, <<"e","l","s","e">>, <<"f","o","r">>, <<"t","o">>,
    <<"o","f">>, <<"i","n">>, <<"o","n">>, <<"a","t">>, <<"b","y">>, <<"w","i","t","h">>,
    <<"a","s">>, <<"i","s">>, <<"a","r","e">>, <<"w","a","s">>, <<"w","e","r","e">>,
    <<"b","e">>, <<"b","e","e","n">>, <<"b","e","i","n","g">>, <<"t","h","i","s">>,
    <<"t","h","a","t">>, <<"t","h","e","s","e">>, <<"t","h","o","s","e">>, <<"i","t">>,
    <<"i","t","s">>, <<"t","h","e","y">>, <<"t","h","e","i","r">>, <<"w","e">>, <<"o","u","r">>,
    <<"y","o","u">>, <<"y","o","u","r">>, <<"i">>, <<"m","e">>, <<"m","y">>, <<"h","e">>,
    <<"s","h","e">>, <<"h","i","m">>, <<"h","e","r">>, <<"t","h","e","m">>, <<"f","r","o","m">>,
    <<"c","a","n">>, <<"c","o","u","l","d">>, <<"m","a","y">>, <<"m","i","g","h","t">>,
    <<"w","i","l","l">>, <<"w","o","u","l","d">>, <<"s","h","o","u","l","d">>, <<"d","o">>,
    <<"d","o","e","s">>, <<"d","i","d">>, <<"n","o","t">>, <<"s","o">>, <<"m","a","n","y">>,
    <<"o","f","t","e","n">>, <<"e","a","c","h">>, <<"a","f","t","e","r">>,
    <<"b","e","f","o","r","e">>, <<"s","t","i","l","l">>
  }

FALLBACK_LEMMA_DICT ==
    (<<"h","e","l","p","s">> :> <<"h","e","l","p">>)
 @@ (<<"c","o","m","p","u","t","e","r","s">> :> <<"c","o","m","p","u","t","e","r">>)
 @@ (<<"a","p","p","s">> :> <<"a","p","p">>)
 @@ (<<"r","e","s","u","l","t","s">> :> <<"r","e","s","u","l","t">>)
 @@ (<<"s","t","u","d","e","n","t","s">> :> <<"s","t","u","d","e","n","t">>)
 @@ (<<"s","e","n","t","e","n","c","e","s">> :> <<"s","e","n","t","e","n","c","e">>)
 @@ (<<"w","o","r","d","s">> :> <<"w","o","r","d">>)
 @@ (<<"p","a","r","t","s">> :> <<"p","a","r","t">>)
 @@ (<<"p","r","o","c","e","s","s","i","n","g">> :> <<"p","r","o","c","e","s","s">>)
 @@ (<<"s","y","s","t","e","m","s">> :> <<"s","y","s","t","e","m">>)
 @@ (<<"d","o","c","u","m","e","n","t","s">> :> <<"d","o","c","u","m","e","n","t">>)
 @@ (<<"q","u","e","s","t","i","o","n","s">> :> <<"q","u","e","s","t","i","o","n">>)
 @@ (<<"s","t","a","r","t","s">> :> <<"s","t","a","r","t">>)
 @@ (<<"a","s","s","i","g","n","s">> :> <<"a","s","s","i","g","n">>)
 @@ (<<"r","e","d","u","c","e","s">> :> <<"r","e","d","u","c","e">>)
 @@ (<<"a","f","f","e","c","t","s">> :> <<"a","f","f","e","c","t">>)
 @@ (<<"i","n","c","l","u","d","e","s">> :> <<"i","n","c","l","u","d","e">>)
 @@ (<<"m","e","a","n","i","n","g","s">> :> <<"m","e","a","n","i","n","g">>)
 @@ (<<"r","u","n","n","i","n","g">> :> <<"r","u","n">>)

COMMON_DET ==
  {
    <<"a">>, <<"a","n">>, <<"t","h","e">>, <<"t","h","i","s">>, <<"t","h","a","t">>,
    <<"t","h","e","s","e">>, <<"t","h","o","s","e">>
  }

COMMON_ADP ==
  {
    <<"i","n">>, <<"o","n">>, <<"a","t">>, <<"b","y">>, <<"w","i","t","h">>, <<"f","o","r">>,
    <<"t","o">>, <<"o","f">>, <<"f","r","o","m">>, <<"a","s">>
  }

COMMON_CONJ ==
  {
    <<"a","n","d">>, <<"o","r">>, <<"b","u","t">>
  }

COMMON_PRON ==
  {
    <<"i">>, <<"m","e">>, <<"m","y">>, <<"y","o","u">>, <<"y","o","u","r">>, <<"h","e">>,
    <<"h","i","m">>, <<"h","e","r">>, <<"s","h","e">>, <<"i","t">>, <<"i","t","s">>,
    <<"w","e">>, <<"o","u","r">>, <<"t","h","e","y">>, <<"t","h","e","m">>,
    <<"t","h","e","i","r">>
  }

NOUN == <<"N","O","U","N">>
VERB == <<"V","E","R","B">>
ADJ == <<"A","D","J">>
ADV == <<"A","D","V">>
PRON == <<"P","R","O","N">>
DET == <<"D","E","T">>
ADP == <<"A","D","P">>
CONJ == <<"C","O","N","J">>
NUM == <<"N","U","M">>
PUNCT == <<"P","U","N","C","T">>
OTHER_POS == <<"O","T","H","E","R">>
VALID_POS == <<NOUN, VERB, ADJ, ADV, PRON, DET, ADP, CONJ, NUM, PUNCT, OTHER_POS>>
UpperLetters == <<"A","B","C","D","E","F","G","H","I","J","K","L","M","N","O","P","Q","R","S","T","U","V","W","X","Y","Z">>
LowerLetters == <<"a","b","c","d","e","f","g","h","i","j","k","l","m","n","o","p","q","r","s","t","u","v","w","x","y","z">>

\* characters matched by \s (and stripped by str.strip)
IsSpace(c) == c \in {" ", "\t", "\n"}

\* [A-Z]
IsUpper(c) == \E i \in 1..Len(UpperLetters) : UpperLetters[i] = c

\* [a-z]
IsLower(c) == \E i \in 1..Len(LowerLetters) : LowerLetters[i] = c

\* [A-Za-z]
IsAsciiLetter(c) == IsUpper(c) \/ IsLower(c)

\* \d
IsDigit(c) == c \in {"0", "1", "2", "3", "4", "5", "6", "7", "8", "9"}

\* \w : letters, digits and the underscore
IsWord(c) == IsAsciiLetter(c) \/ IsDigit(c) \/ c = "_"

\* str.lower on one character
LowerChar(c) ==
  IF IsUpper(c)
    THEN LowerLetters[CHOOSE i \in 1..Len(UpperLetters) : UpperLetters[i] = c]
    ELSE c

\* str.upper on one character
UpperChar(c) ==
  IF IsLower(c)
    THEN UpperLetters[CHOOSE i \in 1..Len(LowerLetters) : LowerLetters[i] = c]
    ELSE c

\* str.lower
lower(s) == [i \in 1..Len(s) |-> LowerChar(s[i])]

\* str.upper
upper(s) == [i \in 1..Len(s) |-> UpperChar(s[i])]

\* str.endswith
endswith(s, suf) ==
  /\ Len(s) >= Len(suf)
  /\ SubSeq(s, Len(s) - Len(suf) + 1, Len(s)) = suf

\* str.endswith with a tuple of suffixes
endswith_any(s, sufs) == \E suf \in sufs : endswith(s, suf)

\* str.strip left out
strip_none(s) == s

\* str.strip
strip(s) ==
  LET keep == {i \in 1..Len(s) : ~IsSpace(s[i])}
  IN  IF keep = {} THEN <<>>
      ELSE SubSeq(s, CHOOSE i \in keep : \A j \in keep : i <= j,
                     CHOOSE i \in keep : \A j \in keep : j <= i)

\* c is in the character class cls: "s" for \s, "a" for [A-Za-z], "d" for \d
InClass(cls, c) ==
  CASE cls = "s" -> IsSpace(c)
    [] cls = "a" -> IsAsciiLetter(c)
    [] cls = "d" -> IsDigit(c)

\* the last index of the longest run of characters of class cls that starts
\* at i (a greedy X+ of a regular expression); requires InClass(cls, s[i])
RunEnd(cls, s, i) ==
  CHOOSE j \in i..Len(s) :
    /\ \A k \in i..j : InClass(cls, s[k])
    /\ j = Len(s) \/ ~InClass(cls, s[j + 1])

(***************************************************************************)
(* Step 1: sentence segmentation.                                          *)
(***************************************************************************)
\* re.sub(r"\s+", " ", s)
RECURSIVE sub_spaces(_, _)
sub_spaces(s, i) ==
  IF i > Len(s) THEN <<>>
  ELSE IF IsSpace(s[i]) THEN <<" ">> \o sub_spaces(s, RunEnd("s", s, i) + 1)
  ELSE <<s[i]>> \o sub_spaces(s, i + 1)

\* SENT_SPLIT_RE matches at i: (?<=[.!?]) \s+ (?=[A-Z0-9"\'])
SentSplitAt(s, i) ==
  /\ i > 1
  /\ s[i - 1] \in {".", "!", "?"}
  /\ IsSpace(s[i])
  /\ LET j == RunEnd("s", s, i)
     IN  /\ j < Len(s)
         /\ IsUpper(s[j + 1]) \/ IsDigit(s[j + 1]) \/ s[j + 1] \in {"\"", "'"}

\* SENT_SPLIT_RE.split(s), s not empty: from is the start of the current
\* piece, i the position of the search
RECURSIVE SENT_SPLIT_RE_split(_, _, _)
SENT_SPLIT_RE_split(s, from, i) ==
  IF i > Len(s) THEN <<SubSeq(s, from, Len(s))>>
  ELSE IF SentSplitAt(s, i)
    THEN <<SubSeq(s, from, i - 1)>>
         \o SENT_SPLIT_RE_split(s, RunEnd("s", s, i) + 1, RunEnd("s", s, i) + 1)
  ELSE SENT_SPLIT_RE_split(s, from, i + 1)

sentence_segment(text) ==
  LET t == sub_spaces(strip(text), 1)
  IN  IF t # <<>> THEN SENT_SPLIT_RE_split(t, 1, 1) ELSE <<>>

(***************************************************************************)
(* Step 2: tokenization.                                                   *)
(***************************************************************************)
\* the end of the TOKEN_RE match that starts at the non-space character i:
\* [A-Za-z]+(?:'[A-Za-z]+)?  |  \d+(?:\.\d+)?  |  [^\s]
TokenEnd(s, i) ==
  IF IsAsciiLetter(s[i])
    THEN LET j == RunEnd("a", s, i)
         IN  IF j + 2 <= Len(s) /\ s[j + 1] = "'" /\ IsAsciiLetter(s[j + 2])
               THEN RunEnd("a", s, j + 2) ELSE j
  ELSE IF IsDigit(s[i])
    THEN LET j == RunEnd("d", s, i)
         IN  IF j + 2 <= Len(s) /\ s[j + 1] = "." /\ IsDigit(s[j + 2])
               THEN RunEnd("d", s, j + 2) ELSE j
  ELSE i

\* TOKEN_RE.findall(s) from position i on
RECURSIVE TOKEN_RE_findall(_, _)
TOKEN_RE_findall(s, i) ==
  IF i > Len(s) THEN <<>>
  ELSE IF IsSpace(s[i]) THEN TOKEN_RE_findall(s, i + 1)
  ELSE <<SubSeq(s, i, TokenEnd(s, i))>> \o TOKEN_RE_findall(s, TokenEnd(s, i) + 1)

tokenize(sentence) == TOKEN_RE_findall(sentence, 1)

(***************************************************************************)
(* Step 4: lemmatization.                                                  *)
(***************************************************************************)
\* re.fullmatch(r"[A-Za-z]+", tok)
IsAlpha(tok) == Len(tok) > 0 /\ \A i \in 1..Len(tok) : IsAsciiLetter(tok[i])

\* the suffix rules of lemmatize_token, applied to the lowercased token
SuffixRules(key) ==
  IF endswith(key, <<"i","e","s">>) /\ Len(key) > 3
    THEN SubSeq(key, 1, Len(key) - 3) \o <<"y">>
  ELSE IF endswith(key, <<"i","n","g">>) /\ Len(key) > 5
    THEN SubSeq(key, 1, Len(key) - 3)
  ELSE IF endswith(key, <<"e","d">>) /\ Len(key) > 4
    THEN SubSeq(key, 1, Len(key) - 2)
  ELSE IF endswith(key, <<"s">>) /\ Len(key) > 3 /\ ~endswith(key, <<"s","s">>)
    THEN SubSeq(key, 1, Len(key) - 1)
  ELSE key

\* the two lookups in the other order
LemmaSource_fallback_first(key, lemma_dict) ==
  IF key \in DOMAIN FALLBACK_LEMMA_DICT THEN "fallback"
  ELSE IF key \in DOMAIN lemma_dict THEN "external"
  ELSE "none"

\* which of the two dictionaries answers for key: "external", "fallback" or
\* "none"
LemmaSource(key, lemma_dict) ==
  IF key \in DOMAIN lemma_dict THEN "external"
  ELSE IF key \in DOMAIN FALLBACK_LEMMA_DICT THEN "fallback"
  ELSE "none"

lemmatize_token(tok, lemma_dict) ==
  LET key == lower(tok)
      src == LemmaSource(key, lemma_dict)
  IN  IF src = "external" THEN lemma_dict[key]
      ELSE IF src = "fallback" THEN FALLBACK_LEMMA_DICT[key]
      ELSE IF IsAlpha(tok) THEN SuffixRules(key)
      ELSE key

(***************************************************************************)
(* Step 5: stop words.                                                     *)
(***************************************************************************)
\* the lookup without lower()
is_stopword_cased(tok) == tok \in DEFAULT_STOPWORDS

is_stopword(tok) == lower(tok) \in DEFAULT_STOPWORDS

(***************************************************************************)
(* Step 3: POS classification, heuristic baseline.                         *)
(***************************************************************************)
\* re.fullmatch(r"[^\w\s]", tok)
IsPunctToken(tok) == Len(tok) = 1 /\ ~IsWord(tok[1]) /\ ~IsSpace(tok[1])

\* re.fullmatch(r"\d+(?:\.\d+)?", tok)
IsNumberToken(tok) ==
  /\ Len(tok) > 0
  /\ IsDigit(tok[1])
  /\ LET j == RunEnd("d", tok, 1)
     IN  \/ j = Len(tok)
         \/ /\ j + 2 <= Len(tok)
            /\ tok[j + 1] = "."
            /\ \A k \in (j + 2)..Len(tok) : IsDigit(tok[k])

\* re.fullmatch(r"[A-Za-z]+(?:'[A-Za-z]+)?", tok)
IsWordToken(tok) ==
  /\ Len(tok) > 0
  /\ IsAsciiLetter(tok[1])
  /\ LET j == RunEnd("a", tok, 1)
     IN  \/ j = Len(tok)
         \/ /\ j + 2 <= Len(tok)
            /\ tok[j + 1] = "'"
            /\ \A k \in (j + 2)..Len(tok) : IsAsciiLetter(tok[k])

\* the suffixes of the ADJ rule
AdjSuffixes ==
  { <<"o","u","s">>, <<"f","u","l">>, <<"a","b","l","e">>, <<"i","b","l","e">>,
    <<"a","l">>, <<"i","v","e">>, <<"i","c">>, <<"y">> }

\* the suffixes of the VERB rule
VerbSuffixes == { <<"i","n","g">>, <<"e","d">> }

\* the ADJ rule tried before the ADV rule
heuristic_pos_adj_first(tok) ==
  LET t == lower(tok)
  IN  IF IsPunctToken(tok) THEN PUNCT
      ELSE IF IsNumberToken(tok) THEN NUM
      ELSE IF t \in COMMON_DET THEN DET
      ELSE IF t \in COMMON_ADP THEN ADP
      ELSE IF t \in COMMON_CONJ THEN CONJ
      ELSE IF t \in COMMON_PRON THEN PRON
      ELSE IF endswith_any(t, AdjSuffixes) /\ Len(t) > 3 THEN ADJ
      ELSE IF endswith(t, <<"l","y">>) THEN ADV
      ELSE IF endswith_any(t, VerbSuffixes) THEN VERB
      ELSE IF IsWordToken(tok) THEN NOUN
      ELSE OTHER_POS

heuristic_pos(tok) ==
  LET t == lower(tok)
  IN  IF IsPunctToken(tok) THEN PUNCT
      ELSE IF IsNumberToken(tok) THEN NUM
      ELSE IF t \in COMMON_DET THEN DET
      ELSE IF t \in COMMON_ADP THEN ADP
      ELSE IF t \in COMMON_CONJ THEN CONJ
      ELSE IF t \in COMMON_PRON THEN PRON
      ELSE IF endswith(t, <<"l","y">>) THEN ADV
      ELSE IF endswith_any(t, AdjSuffixes) /\ Len(t) > 3 THEN ADJ
      ELSE IF endswith_any(t, VerbSuffixes) THEN VERB
      ELSE IF IsWordToken(tok) THEN NOUN
      ELSE OTHER_POS

(***************************************************************************)
(* Step 3: POS classification, manual labelling with a cache file.         *)
(*                                                                         *)
(* The content of the cache file, and the value json.loads makes of it, is *)
(* a record: kind is "absent" (no file), "garbage" (text json.loads        *)
(* rejects), "dict", "list", "str" or "num"; map holds the entries of a    *)
(* dict, items the elements of a list or the one text of a str.            *)
(***************************************************************************)
JAbsent == [kind |-> "absent", map |-> <<>>, items |-> <<>>]
JGarbage == [kind |-> "garbage", map |-> <<>>, items |-> <<>>]
JNum == [kind |-> "num", map |-> <<>>, items |-> <<>>]
JDict(m) == [kind |-> "dict", map |-> m, items |-> <<>>]
JList(xs) == [kind |-> "list", map |-> <<>>, items |-> xs]
JStr(s) == [kind |-> "str", map |-> <<>>, items |-> <<s>>]

\* sub in s, for two str
IsSubstring(sub, s) ==
  \E i \in 1..(Len(s) + 1) :
    i + Len(sub) - 1 <= Len(s) /\ SubSeq(s, i, i + Len(sub) - 1) = sub

\* the first lines of manual_pos_tag: stored = {} unless the file exists and
\* json.loads accepts it
load_stored(f) == IF f.kind \in {"absent", "garbage"} THEN JDict(<<>>) ELSE f

\* a lookup that never finds the key
key_in_never(key, st) == IF st.kind \in {"dict", "list", "str"} THEN "no" ELSE "TypeError"

\* "key in stored": "yes", "no", or "TypeError" where Python raises
key_in(key, st) ==
  CASE st.kind = "dict" -> IF key \in DOMAIN st.map THEN "yes" ELSE "no"
    [] st.kind = "list" -> IF \E i \in 1..Len(st.items) : st.items[i] = key
                             THEN "yes" ELSE "no"
    [] st.kind = "str"  -> IF IsSubstring(key, st.items[1]) THEN "yes" ELSE "no"
    [] OTHER -> "TypeError"

\* stored[key] and stored[key] = v succeed on a dict only
subscriptable(st) == st.kind = "dict"

\* stored[key] = v
setitem(st, key, v) ==
  [st EXCEPT !.map = IF key \in DOMAIN st.map THEN [st.map EXCEPT ![key] = v]
                     ELSE st.map @@ (key :> v)]

\* input("POS> ").strip().upper(), coerced to OTHER outside VALID_POS
choice_of(resp) ==
  LET choice == upper(strip(resp))
  IN  IF \E i \in 1..Len(VALID_POS) : VALID_POS[i] = choice THEN choice ELSE OTHER_POS

\* the loop left after its first token
AllTagged_early(i, toks) == i > 1 \/ i > Len(toks)

\* the for loop of manual_pos_tag has consumed every token
AllTagged(i, toks) == i > Len(toks)

(***************************************************************************)
(* Inputs.                                                                 *)
(***************************************************************************)
\* the characters of the input texts
TextAlphabet == {" ", ".", "A", "a"}

\* every str over alphabet of length at most n
StrUpTo(alphabet, n) == UNION {[1..k -> alphabet] : k \in 0..n}

Texts == StrUpTo(TextAlphabet, MaxTextLen)

\* cache files the first run may find
CacheFiles ==
  { JAbsent, JGarbage, JNum,
    JDict((<<"a","a">> :> <<"X","Y","Z">>)),
    JList(<<>>), JList(<<<<"a">>>>),
    JStr(<<"a","a">>) }

\* what the user types at the prompt
Responses == { <<"n","o","u","n">>, <<" ","V","e","r","b","\n">>, <<"x">> }

\* external lemma dictionaries, as load_lemma_dict returns them
LemmaDicts ==
  { <<>>,
    (<<"r","u","n","n","i","n","g">> :> <<"j","o","g">>) @@ (<<"a">> :> <<"o","n","e">>) }

\* the characters of the generated stems
StemAlphabet == {"a", "s"}

\* suffixes put behind the generated stems
SuffixSamples ==
  {
    <<>>, <<"s">>, <<"s","s">>, <<"e","s">>, <<"i","e","s">>, <<"i","n","g">>,
    <<"i","n","g","s">>, <<"e","d">>, <<"l","y">>, <<"y">>, <<"o","u","s">>, <<"f","u","l">>,
    <<"a","b","l","e">>, <<"i","b","l","e">>, <<"a","l">>, <<"i","v","e">>, <<"i","c">>
  }

\* words of the usage examples and of the rules' boundary cases
WordSamples ==
  {
    <<"m","e","e","t","i","n","g","s">>, <<"m","e","e","t","i","n","g">>, <<"m","e","e","t">>,
    <<"R","u","n","n","i","n","g">>, <<"R","U","N","N","I","N","G">>,
    <<"C","o","m","p","u","t","e","r","s">>, <<"c","o","m","p","u","t","e","r">>,
    <<"p","r","o","c","e","s","s">>, <<"r","u","n">>, <<"T","h","e">>, <<"T","H","E">>,
    <<"t","h","e">>, <<"I","t">>, <<"i","s">>, <<"w","i","d","e","l","y">>,
    <<"h","a","p","p","y">>, <<"t","e","x","t">>, <<"N","L","P">>,
    <<"u","n","d","e","r","s","t","a","n","d">>, <<"u","s","e","d">>, <<"d","o","n","'","t">>,
    <<"i","t","'","s">>, <<"1">>, <<"1","2">>, <<"1",".","5">>, <<"1",".">>, <<".">>, <<"!">>,
    <<"_">>, <<"'">>, <<"a","1">>, <<"x","1","l","y">>, <<"o","n","l","y">>,
    <<"f","a","m","i","l","y">>, <<"b","y">>, <<"m","y">>, <<"f","l","y">>, <<"a","n","y">>,
    <<"r","e","d">>, <<"k","i","n","g">>, <<"a","n","d">>, <<"f","r","o","m">>,
    <<"c","i","t","i","e","s">>, <<"c","l","a","s","s","e","s">>, <<"g","l","a","s","s">>,
    <<"p","a","s","s","e","d">>, <<"s","i","n","g","i","n","g">>, <<"n","e","e","d","e","d">>,
    <<"o","'","c","l","o","c","k">>, <<"u","s","e","f","u","l">>, <<"b","a","s","i","c">>
  }

\* the tokens handed to direct calls of lemmatize_token and heuristic_pos
FnTokens ==
  {st \o suf : st \in StrUpTo(StemAlphabet, MaxStemLen), suf \in SuffixSamples}
    \cup WordSamples
    \cup DOMAIN FALLBACK_LEMMA_DICT
    \cup DEFAULT_STOPWORDS

(***************************************************************************)
(* State.                                                                  *)
(***************************************************************************)
VARIABLES
  pc,          \* position in run_pipeline / manual_pos_tag
  text,        \* run_pipeline's argument
  lemma_dict,  \* run_pipeline's argument
  pos_mode,    \* run_pipeline's argument
  file,        \* the content of manual_store
  sents,       \* sentence_segment(text)
  si,          \* the loop index of run_pipeline
  tokens,      \* tokenize(sent)
  ti,          \* position of manual_pos_tag's loop in tokens
  stored,      \* manual_pos_tag's dict
  tagged,      \* manual_pos_tag's out / run_pipeline's tagged
  results,     \* run_pipeline's results
  runs,        \* number of runs started
  writes,      \* number of write_text calls of the current run
  prompts,     \* number of input() calls so far, per lowercased token
  ftok,        \* argument of a direct call of a pure function
  fdict,       \* the lemma_dict of that call
  fpc,         \* which call has returned
  fret         \* what the calls returned

pipeVars == <<pc, text, lemma_dict, pos_mode, file, sents, si, tokens, ti, stored,
              tagged, results, runs, writes, prompts>>
fnVars == <<ftok, fdict, fpc, fret>>
vars == <<pipeVars, fnVars>>

NoRet == [lemma |-> <<>>, again |-> <<>>, pos |-> <<>>]

PipeInit ==
  /\ pc = "idle"
  /\ text = <<>>
  /\ lemma_dict = <<>>
  /\ pos_mode = "heuristic"
  /\ sents = <<>>
  /\ si = 1
  /\ tokens = <<>>
  /\ ti = 1
  /\ stored = JDict(<<>>)
  /\ tagged = <<>>
  /\ results = <<>>
  /\ runs = 0
  /\ writes = 0
  /\ prompts = <<>>

FnIdle ==
  /\ ftok = <<>>
  /\ fdict = <<>>
  /\ fpc = "idle"
  /\ fret = NoRet

Init ==
  /\ PipeInit
  /\ file \in CacheFiles
  /\ FnIdle

(***************************************************************************)
(* run_pipeline.                                                           *)
(***************************************************************************)
\* a run starts: main calls run_pipeline, which segments the text
StartRun(t, d, m) ==
  /\ pc = "idle"
  /\ runs < MaxRuns
  /\ runs' = runs + 1
  /\ text' = t
  /\ lemma_dict' = d
  /\ pos_mode' = m
  /\ sents' = sentence_segment(t)
  /\ si' = 1
  /\ tokens' = <<>>
  /\ ti' = 1
  /\ tagged' = <<>>
  /\ results' = <<>>
  /\ writes' = 0
  /\ pc' = "sent"
  /\ UNCHANGED <<file, stored, prompts>>

\* the for loop takes the next sentence, heuristic mode: tokenize and tag
TagHeuristic ==
  /\ pc = "sent"
  /\ si <= Len(sents)
  /\ pos_mode # "manual"
  /\ tokens' = tokenize(sents[si])
  /\ tagged' = [i \in 1..Len(tokens') |->
                  <<tokens'[i], heuristic_pos(tokens'[i]), "heuristic">>]
  /\ pc' = "rows"
  /\ UNCHANGED <<text, lemma_dict, pos_mode, file, sents, si, ti, stored, results,
                 runs, writes, prompts>>

\* the for loop takes the next sentence, manual mode: tokenize and enter
\* manual_pos_tag, which loads the cache file
CallManual ==
  /\ pc = "sent"
  /\ si <= Len(sents)
  /\ pos_mode = "manual"
  /\ tokens' = tokenize(sents[si])
  /\ stored' = load_stored(file)
  /\ tagged' = <<>>
  /\ ti' = 1
  /\ pc' = "tag"
  /\ UNCHANGED <<text, lemma_dict, pos_mode, file, sents, si, results, runs, writes,
                 prompts>>

\* an exception leaves manual_pos_tag and run_pipeline
Raise ==
  /\ pc' = "raised"
  /\ UNCHANGED <<stored, tagged, ti>>

\* "key in stored" raises
TagTypeError ==
  /\ pc = "tag"
  /\ ~AllTagged(ti, tokens)
  /\ key_in(lower(tokens[ti]), stored) = "TypeError"
  /\ Raise
  /\ UNCHANGED <<text, lemma_dict, pos_mode, file, sents, si, tokens, results, runs,
                 writes, prompts>>

\* the token is in the cache
TagCached ==
  /\ pc = "tag"
  /\ ~AllTagged(ti, tokens)
  /\ LET tok == tokens[ti]
         key == lower(tok)
     IN  /\ key_in(key, stored) = "yes"
         /\ IF subscriptable(stored)
              THEN /\ tagged' = Append(tagged, <<tok, stored.map[key], "manual(cache)">>)
                   /\ ti' = ti + 1
                   /\ UNCHANGED <<pc, stored>>
              ELSE Raise
  /\ UNCHANGED <<text, lemma_dict, pos_mode, file, sents, si, tokens, results, runs,
                 writes, prompts>>

\* the token is a punctuation mark that is not in the cache
TagAutoPunct ==
  /\ pc = "tag"
  /\ ~AllTagged(ti, tokens)
  /\ LET tok == tokens[ti]
         key == lower(tok)
     IN  /\ key_in(key, stored) = "no"
         /\ IsPunctToken(tok)
         /\ IF subscriptable(stored)
              THEN /\ stored' = setitem(stored, key, PUNCT)
                   /\ tagged' = Append(tagged, <<tok, PUNCT, "manual(auto-punct)">>)
                   /\ ti' = ti + 1
                   /\ UNCHANGED pc
              ELSE Raise
  /\ UNCHANGED <<text, lemma_dict, pos_mode, file, sents, si, tokens, results, runs,
                 writes, prompts>>

\* the user is asked and answers resp
TagPrompt(resp) ==
  /\ pc = "tag"
  /\ ~AllTagged(ti, tokens)
  /\ LET tok == tokens[ti]
         key == lower(tok)
     IN  /\ key_in(key, stored) = "no"
         /\ ~IsPunctToken(tok)
         /\ prompts' = IF key \in DOMAIN prompts
                         THEN [prompts EXCEPT ![key] = @ + 1]
                         ELSE prompts @@ (key :> 1)
         /\ IF subscriptable(stored)
              THEN /\ stored' = setitem(stored, key, choice_of(resp))
                   /\ tagged' = Append(tagged, <<tok, choice_of(resp), "manual">>)
                   /\ ti' = ti + 1
                   /\ UNCHANGED pc
              ELSE Raise
  /\ UNCHANGED <<text, lemma_dict, pos_mode, file, sents, si, tokens, results, runs,
                 writes>>

\* the loop is over: manual_pos_tag writes the cache file and returns
WriteCache ==
  /\ pc = "tag"
  /\ AllTagged(ti, tokens)
  /\ file' = stored
  /\ writes' = writes + 1
  /\ pc' = "rows"
  /\ UNCHANGED <<text, lemma_dict, pos_mode, sents, si, tokens, ti, stored, tagged,
                 results, runs, prompts>>

\* one annotation row
Row(i, sent, t) ==
  [si |-> i, sent |-> sent, tok |-> t[1], pos |-> t[2], pos_src |-> t[3],
   lemma |-> lemmatize_token(t[1], lemma_dict),
   removed |-> (is_stopword(t[1]) \/ t[2] = PUNCT)]

\* the rows of the sentence are built and appended to results
BuildRows ==
  /\ pc = "rows"
  /\ results' = Append(results,
                       [i \in 1..Len(tagged) |-> Row(si, sents[si], tagged[i])])
  /\ si' = si + 1
  /\ pc' = "sent"
  /\ UNCHANGED <<text, lemma_dict, pos_mode, file, sents, tokens, ti, stored, tagged,
                 runs, writes, prompts>>

\* no sentence is left: run_pipeline returns results
Return ==
  /\ pc = "sent"
  /\ si > Len(sents)
  /\ pc' = "done"
  /\ UNCHANGED <<text, lemma_dict, pos_mode, file, sents, si, tokens, ti, stored,
                 tagged, results, runs, writes, prompts>>

Next ==
  \/ /\ \E t \in Texts, d \in LemmaDicts, m \in {"heuristic", "manual"} : StartRun(t, d, m)
     /\ UNCHANGED fnVars
  \/ /\ TagHeuristic
     /\ UNCHANGED fnVars
  \/ /\ CallManual
     /\ UNCHANGED fnVars
  \/ /\ TagTypeError
     /\ UNCHANGED fnVars
  \/ /\ TagCached
     /\ UNCHANGED fnVars
  \/ /\ TagAutoPunct
     /\ UNCHANGED fnVars
  \/ /\ \E resp \in Responses : TagPrompt(resp)
     /\ UNCHANGED fnVars
  \/ /\ WriteCache
     /\ UNCHANGED fnVars
  \/ /\ BuildRows
     /\ UNCHANGED fnVars
  \/ /\ Return
     /\ UNCHANGED fnVars

\* one run of the program
Spec == Init /\ [][Next]_vars

\* the process ends, after main has used results or with the traceback of the
\* exception; only the cache file outlives it
Exit ==
  /\ pc \in {"done", "raised"}
  /\ pc' = "idle"
  /\ text' = <<>>
  /\ lemma_dict' = <<>>
  /\ pos_mode' = "heuristic"
  /\ sents' = <<>>
  /\ si' = 1
  /\ tokens' = <<>>
  /\ ti' = 1
  /\ stored' = JDict(<<>>)
  /\ tagged' = <<>>
  /\ results' = <<>>
  /\ writes' = 0
  /\ UNCHANGED <<file, runs, prompts>>

\* consecutive runs of the program on the same cache file
RunsNext ==
  \/ Next
  \/ /\ Exit
     /\ UNCHANGED fnVars

SpecRuns == Init /\ [][RunsNext]_vars

(***************************************************************************)
(* Direct calls of the pure functions lemmatize_token and heuristic_pos.   *)
(***************************************************************************)
\* a caller lemmatizes the token
CallLemmatize ==
  /\ fpc = "call"
  /\ fret' = [fret EXCEPT !.lemma = lemmatize_token(ftok, fdict)]
  /\ fpc' = "lemma"
  /\ UNCHANGED <<ftok, fdict>>

\* the caller lemmatizes the lemma it got
CallLemmatizeAgain ==
  /\ fpc = "lemma"
  /\ fret' = [fret EXCEPT !.again = lemmatize_token(fret.lemma, fdict)]
  /\ fpc' = "again"
  /\ UNCHANGED <<ftok, fdict>>

\* a caller classifies the token
CallHeuristic ==
  /\ fpc = "call"
  /\ fret' = [fret EXCEPT !.pos = heuristic_pos(ftok)]
  /\ fpc' = "pos"
  /\ UNCHANGED <<ftok, fdict>>

FnInit ==
  /\ PipeInit
  /\ file = JAbsent
  /\ ftok \in FnTokens
  /\ fdict \in LemmaDicts
  /\ fpc = "call"
  /\ fret = NoRet

FnNext ==
  \/ /\ CallLemmatize
     /\ UNCHANGED pipeVars
  \/ /\ CallLemmatizeAgain
     /\ UNCHANGED pipeVars
  \/ /\ CallHeuristic
     /\ UNCHANGED pipeVars

SpecFn == FnInit /\ [][FnNext]_vars

(***************************************************************************)
(* Properties.                                                             *)
(***************************************************************************)
\* the eleven tags
TagSet == {NOUN, VERB, ADJ, ADV, PRON, DET, ADP, CONJ, NUM, PUNCT, OTHER_POS}

\* C1: in both POS modes the POS tag of every annotation row of run_pipeline
\* is one of the eleven tags, whatever the cache file held at the start of
\* the run and whatever the user answered.
C1_TagInValidSet ==
  \A s \in 1..Len(results) : \A i \in 1..Len(results[s]) :
    results[s][i].pos \in TagSet

C3_PromptAtMostOnce == \A k \in DOMAIN prompts : prompts[k] <= 1

\* C4: manual_pos_tag raises no error, whatever the cache file holds.
C4_NoErrorOnMalformedCache == pc # "raised"

\* the entries of cache a are entries of cache b
Keeps(a, b) ==
  a.kind = "dict" =>
    \A k \in DOMAIN a.map :
      b.kind = "dict" /\ k \in DOMAIN b.map /\ b.map[k] = a.map[k]

\* C5: within one manual run the cache is append-only, in memory and in the
\* file: no step of the run removes a key or changes the tag of a key, the
\* reload at the start of the next sentence included.
C5_AppendOnly ==
  [][pc' # "idle" => Keeps(stored, stored') /\ Keeps(file, file')]_vars

\* a finished manual run over two sentences whose cache file still holds the
\* entry it started with next to the entries of both sentences
C5_Witness ==
  /\ pc = "done"
  /\ pos_mode = "manual"
  /\ Len(sents) = 2
  /\ file.kind = "dict"
  /\ <<"a","a">> \in DOMAIN file.map
  /\ file.map[<<"a","a">>] = <<"X","Y","Z">>
  /\ Cardinality(DOMAIN file.map) = 3

\* C6: the removed flag of every annotation row is true exactly when the
\* lowercased token is a stop word or the row's tag is PUNCT, so two rows
\* whose tokens differ in letter case only and whose tags agree have the same
\* flag.
C6_RemovedFlag ==
  \A s \in 1..Len(results) : \A i \in 1..Len(results[s]) :
    LET r == results[s][i]
    IN  /\ r.removed <=> (lower(r.tok) \in DEFAULT_STOPWORDS \/ r.pos = PUNCT)
        /\ \A j \in 1..Len(results[s]) :
             LET q == results[s][j]
             IN  lower(q.tok) = lower(r.tok) /\ q.pos = r.pos => q.removed = r.removed

\* an upper-case stop word that is not tagged PUNCT is removed
C6_Witness ==
  \E s \in 1..Len(results) : \E i \in 1..Len(results[s]) :
    /\ results[s][i].tok = <<"A">>
    /\ results[s][i].pos # PUNCT
    /\ results[s][i].removed

\* C10: every sentence of sentence_segment is a non-empty str for which
\* tokenize returns a token, so every row list of results has a first row;
\* a text of white space only has no sentence.
C10_NoEmptySentence ==
  /\ \A s \in 1..Len(sents) : sents[s] # <<>> /\ tokenize(sents[s]) # <<>>
  /\ pc = "rows" => tokens # <<>> /\ Len(tagged) = Len(tokens)
  /\ \A s \in 1..Len(results) : Len(results[s]) >= 1
  /\ (\A i \in 1..Len(text) : IsSpace(text[i])) => sents = <<>> /\ results = <<>>

\* a finished run over a text of two sentences, with a row list for each
C10_Witness ==
  /\ pc = "done"
  /\ Len(sents) = 2
  /\ Len(results) = 2
  /\ Len(results[1]) >= 1
  /\ Len(results[2]) >= 1

\* C7: lemmatize_token answers from the external dictionary when the
\* lowercased token is a key of it, else from the fallback dictionary when it
\* is a key of that, and only else from the suffix rules.
C7_Precedence ==
  fpc \in {"lemma", "again"} =>
    LET key == lower(ftok)
    IN  IF key \in DOMAIN fdict THEN fret.lemma = fdict[key]
        ELSE IF key \in DOMAIN FALLBACK_LEMMA_DICT
          THEN fret.lemma = FALLBACK_LEMMA_DICT[key]
        ELSE fret.lemma = (IF IsAlpha(ftok) THEN SuffixRules(key) ELSE key)

\* "Running" is a key of both dictionaries, with different lemmas, and a
\* suffix rule applies to it: the external lemma is returned
C7_Witness ==
  /\ fpc = "lemma"
  /\ ftok = <<"R","u","n","n","i","n","g">>
  /\ lower(ftok) \in DOMAIN fdict
  /\ fdict[lower(ftok)] # FALLBACK_LEMMA_DICT[lower(ftok)]
  /\ fret.lemma = <<"j","o","g">>

\* C8: with no external dictionary, lemmatizing the lemma of any token
\* returns that lemma.
C8_Idempotent == fpc = "again" /\ fdict = <<>> => fret.again = fret.lemma

\* the rules of the heuristic classifier as the claim lists them, on the
\* token and its lowercased form
RuleMatches(n, tok) ==
  LET t == lower(tok)
      ends(suf) == Len(t) >= Len(suf) /\ \A i \in 1..Len(suf) : t[Len(t) - Len(suf) + i] = suf[i]
  IN  CASE n = 1 -> Len(tok) = 1 /\ ~IsWord(tok[1]) /\ ~IsSpace(tok[1])
        [] n = 2 -> IsNumberToken(tok)
        [] n = 3 -> t \in COMMON_DET
        [] n = 4 -> t \in COMMON_ADP
        [] n = 5 -> t \in COMMON_CONJ
        [] n = 6 -> t \in COMMON_PRON
        [] n = 7 -> ends(<<"l","y">>)
        [] n = 8 -> /\ Len(t) > 3
                    /\ \/ ends(<<"o","u","s">>) \/ ends(<<"f","u","l">>)
                       \/ ends(<<"a","b","l","e">>) \/ ends(<<"i","b","l","e">>)
                       \/ ends(<<"a","l">>) \/ ends(<<"i","v","e">>)
                       \/ ends(<<"i","c">>) \/ ends(<<"y">>)
        [] n = 9 -> ends(<<"i","n","g">>) \/ ends(<<"e","d">>)
        [] n = 10 -> IsWordToken(tok)
        [] OTHER -> TRUE

\* the tag of each rule
RuleTag == <<PUNCT, NUM, DET, ADP, CONJ, PRON, ADV, ADJ, VERB, NOUN, OTHER_POS>>

\* C9: heuristic_pos returns the tag of the first rule that matches, in the
\* order PUNCT, NUM, DET, ADP, CONJ, PRON, ADV, ADJ, VERB, NOUN, OTHER.
C9_FirstMatchWins ==
  fpc = "pos" =>
    \E n \in 1..Len(RuleTag) :
      /\ RuleMatches(n, ftok)
      /\ \A m \in 1..(n - 1) : ~RuleMatches(m, ftok)
      /\ fret.pos = RuleTag[n]

\* "widely" matches the ADV rule and the later ADJ and NOUN rules: it is ADV
C9_Witness ==
  /\ fpc = "pos"
  /\ ftok = <<"w","i","d","e","l","y">>
  /\ RuleMatches(7, ftok) /\ RuleMatches(8, ftok) /\ RuleMatches(10, ftok)
  /\ fret.pos = ADV

=============================================================================
